---------------------------- MODULE Spec2Model ----------------------------
(***************************************************************************)
(* Model of briefcase (src/src/main.rs): a command-line key-value store    *)
(* that keeps one file per entry in the directory                          *)
(* <temp-root>/<dir-name>.  One invocation of the program runs one         *)
(* command; the only state that survives an invocation is the directory.   *)
(*                                                                         *)
(* Strings (names, values, lines of standard input, standard output) are   *)
(* sequences of one-character strings.                                     *)
(***************************************************************************)
EXTENDS Naturals, Integers, Sequences, FiniteSets, TLC

VARIABLES briefcase, last, lastMut, live, env, procs

vars == <<briefcase, last, lastMut, live, env, procs>>

(***************************************************************************)
(* Bounds.  The length of a value:                                         *)
(***************************************************************************)
MaxValLen == 1

\* Bound: the length of the strings given to the name validator.
MaxEntryLen == 4

(***************************************************************************)
(* Characters.                                                             *)
(***************************************************************************)
UpperCase ==
  <<"A", "B", "C", "D", "E", "F", "G", "H", "I", "J", "K", "L", "M",
    "N", "O", "P", "Q", "R", "S", "T", "U", "V", "W", "X", "Y", "Z">>

LowerCase ==
  <<"a", "b", "c", "d", "e", "f", "g", "h", "i", "j", "k", "l", "m",
    "n", "o", "p", "q", "r", "s", "t", "u", "v", "w", "x", "y", "z">>

Letters == {UpperCase[i] : i \in 1..26} \cup {LowerCase[i] : i \in 1..26}

Digits == {"0", "1", "2", "3", "4", "5", "6", "7", "8", "9"}

WhiteSpace == {" ", "\t", "\n", "\r"}

SeqsUpTo(A, k) == UNION {[1..m -> A] : m \in 0..k}

\* The names given on the command line: two names that pass the name rule
\* (a letter alone; an upper-case letter, an underscore and a digit) and
\* names that fail it (the empty name, a digit first, an underscore first,
\* a character outside the alphabet).
Names ==
  { <<"x">>, <<"Y", "_", "2">>,
    <<>>, <<"2", "x">>, <<"_", "x">>, <<"x", "-">> }

\* The strings given to the name validator: letters of both cases, a digit,
\* the underscore and a character outside the name alphabet.
EntryAlphabet == {"a", "b", "A", "1", "_", "-"}

EntryStrings == SeqsUpTo(EntryAlphabet, MaxEntryLen)

\* Values are made of a letter and the newline.
ValueAlphabet == {"a", "\n"}

Values == SeqsUpTo(ValueAlphabet, MaxValLen)

\* Lines that read_line can deliver from standard input: the text up to and
\* including the first newline, or up to end of input.
Answers ==
  { <<>>, <<"\n">>, <<"y", "\n">>, <<"Y", "\n">>, <<"y">>,
    <<" ", "y", " ", "\n">>, <<"Y", "\r", "\n">>, <<"n", "\n">>,
    <<"N", "\n">>, <<"y", "e", "s", "\n">>, <<"y", "y", "\n">>,
    <<"y", " ", "y", "\n">> }

(***************************************************************************)
(* is_valid_entry: the regex ^[a-zA-Z][a-zA-Z0-9_]*$ run as an automaton   *)
(* over the whole string (both ends are anchored).                         *)
(***************************************************************************)
re_step_word_first(st, c) ==
  CASE st = "start" /\ c \in Letters \cup {"_"} -> "body"
    [] st = "body" /\ c \in Letters \cup Digits \cup {"_"} -> "body"
    [] OTHER -> "dead"

re_step(st, c) ==
  CASE st = "start" /\ c \in Letters -> "body"
    [] st = "body" /\ c \in Letters \cup Digits \cup {"_"} -> "body"
    [] OTHER -> "dead"

RECURSIVE re_run(_, _, _)
re_run(entry, i, st) ==
  IF i > Len(entry) THEN st
  ELSE re_run(entry, i + 1, re_step(st, entry[i]))

is_valid_entry_unanchored(entry) ==
  \E k \in 1..Len(entry) :
    re_run(SubSeq(entry, k, Len(entry)), 1, "start") = "body"

is_valid_entry(entry) == re_run(entry, 1, "start") = "body"

(***************************************************************************)
(* str::trim and str::to_lowercase, as purge applies them to the answer.   *)
(***************************************************************************)
RECURSIVE trim_start(_)
trim_start(s) ==
  IF s # <<>> /\ Head(s) \in WhiteSpace THEN trim_start(Tail(s)) ELSE s

RECURSIVE trim_end(_)
trim_end(s) ==
  IF s # <<>> /\ s[Len(s)] \in WhiteSpace
  THEN trim_end(SubSeq(s, 1, Len(s) - 1))
  ELSE s

trim(s) == trim_end(trim_start(s))

lower_char(c) ==
  IF \E i \in 1..26 : UpperCase[i] = c
  THEN LowerCase[CHOOSE i \in 1..26 : UpperCase[i] = c]
  ELSE c

to_lowercase(s) == [i \in 1..Len(s) |-> lower_char(s[i])]

confirmed_not_n(input) == to_lowercase(trim(input)) # <<"n">>

\* purge goes on iff the trimmed, lower-cased answer is "y" (line 172).
confirmed(input) == to_lowercase(trim(input)) = <<"y">>

(***************************************************************************)
(* The briefcase directory: whether it exists, and its files (a function   *)
(* from file name to contents).                                            *)
(***************************************************************************)
NoFiles == [n \in {} |-> <<>>]

NoDir == [exists |-> FALSE, files |-> NoFiles]

Put(f, n, v) == [m \in (DOMAIN f) \cup {n} |-> IF m = n THEN v ELSE f[m]]

Drop(f, n) == [m \in (DOMAIN f) \ {n} |-> f[m]]

create_dir_strict(d) ==
  IF d.exists THEN [err |-> "AlreadyExists", dir |-> d]
  ELSE [err |-> "none", dir |-> [d EXCEPT !.exists = TRUE]]

\* fs::create_dir_all: creates the directory when missing, succeeds when it
\* is already there.
create_dir_all(d) == [err |-> "none", dir |-> [d EXCEPT !.exists = TRUE]]

fs_write_noclobber(d, n, v) ==
  IF ~d.exists THEN [err |-> "NotFound", dir |-> d]
  ELSE IF n \in DOMAIN d.files THEN [err |-> "none", dir |-> d]
  ELSE [err |-> "none", dir |-> [d EXCEPT !.files = Put(d.files, n, v)]]

\* fs::write: creates the file or replaces its whole contents.
fs_write(d, n, v) ==
  IF ~d.exists THEN [err |-> "NotFound", dir |-> d]
  ELSE [err |-> "none", dir |-> [d EXCEPT !.files = Put(d.files, n, v)]]

\* fs::File::open followed by read_to_string.
File_open(d, n) ==
  IF d.exists /\ n \in DOMAIN d.files
  THEN [err |-> "none", contents |-> d.files[n]]
  ELSE [err |-> "NotFound", contents |-> <<>>]

remove_dir_all_lenient(d) == [err |-> "none", dir |-> NoDir]

\* fs::remove_dir_all: removes the directory and everything in it.
remove_dir_all(d) ==
  IF ~d.exists THEN [err |-> "NotFound", dir |-> d]
  ELSE [err |-> "none", dir |-> NoDir]

remove_file_noop(d, n) ==
  IF d.exists /\ n \in DOMAIN d.files
  THEN [err |-> "none", dir |-> d]
  ELSE [err |-> "NotFound", dir |-> d]

remove_file_rmdir(d, n) ==
  IF d.exists /\ n \in DOMAIN d.files
  THEN [err |-> "none",
        dir |-> IF DOMAIN d.files = {n} THEN NoDir
                ELSE [d EXCEPT !.files = Drop(d.files, n)]]
  ELSE [err |-> "NotFound", dir |-> d]

\* fs::remove_file.
remove_file(d, n) ==
  IF d.exists /\ n \in DOMAIN d.files
  THEN [err |-> "none", dir |-> [d EXCEPT !.files = Drop(d.files, n)]]
  ELSE [err |-> "NotFound", dir |-> d]

\* fs::read_dir: the names in the directory.
read_dir(d) ==
  IF ~d.exists THEN [err |-> "NotFound", entries |-> {}]
  ELSE [err |-> "none", entries |-> DOMAIN d.files]

\* The orders in which read_dir may yield the entries (unspecified).
Orders(S) ==
  {o \in [1..Cardinality(S) -> S] : \A i, j \in 1..Cardinality(S) :
                                        i # j => o[i] # o[j]}

(***************************************************************************)
(* Results.  res is the variant of BriefcaseError ("Ok" for Ok(())),       *)
(* ioKind the io::ErrorKind carried by the Io variant, out the text        *)
(* written to standard output, calls the calls the command made to the     *)
(* filesystem and to standard input, in order.                             *)
(***************************************************************************)
Outcome(res, kind, dir, out, calls) ==
  [res |-> res, ioKind |-> kind, dir |-> dir, out |-> out, calls |-> calls]

\* impl From<io::Error> for BriefcaseError (the ? operator).
From_io(kind, dir, out, calls) == Outcome("Io", kind, dir, out, calls)

InvalidEntry(dir) == Outcome("InvalidEntry", "-", dir, <<>>, <<>>)

EntryNotFound(dir, calls) == Outcome("EntryNotFound", "-", dir, <<>>, calls)

Ok(dir, out, calls) == Outcome("Ok", "-", dir, out, calls)

PromptMsg == "Are you sure you want to delete all briefcase data? (y/n) "

AbortMsg == "Exiting without deleting data\n"

PurgedMsg == "Briefcase data purged successfully\n"

print_ln(contents) == Append(contents, "\n")

\* print!("{}", contents).
print(contents) == contents

(***************************************************************************)
(* The commands, as functions of the directory and the arguments.          *)
(***************************************************************************)
set_unchecked(d, name, value) ==
  LET w == fs_write(create_dir_all(d).dir, name, value) IN
  Ok(w.dir, <<>>, <<"create_dir_all", "write">>)

set(d, name, value) ==
  IF ~is_valid_entry(name) THEN InvalidEntry(d)
  ELSE LET c == create_dir_all(d) IN
       IF c.err # "none" THEN From_io(c.err, c.dir, <<>>, <<"create_dir_all">>)
       ELSE LET w == fs_write(c.dir, name, value) IN
            IF w.err # "none"
            THEN From_io(w.err, w.dir, <<>>, <<"create_dir_all", "write">>)
            ELSE Ok(w.dir, <<>>, <<"create_dir_all", "write">>)

get_ensure_dir(d, name) ==
  IF ~is_valid_entry(name) THEN InvalidEntry(d)
  ELSE LET c == create_dir_all(d).dir
           f == File_open(c, name)
       IN  IF f.err = "NotFound" THEN EntryNotFound(c, <<"open">>)
           ELSE Ok(c, print(f.contents), <<"open", "read_to_string">>)

get(d, name) ==
  IF ~is_valid_entry(name) THEN InvalidEntry(d)
  ELSE LET f == File_open(d, name) IN
       IF f.err = "NotFound" THEN EntryNotFound(d, <<"open">>)
       ELSE IF f.err # "none" THEN From_io(f.err, d, <<>>, <<"open">>)
       ELSE Ok(d, print(f.contents), <<"open", "read_to_string">>)

purge(d, force, input) ==
  LET shown == IF force THEN <<>> ELSE <<PromptMsg>>
      asked == IF force THEN <<>> ELSE <<"read_line">>
  IN
  IF ~force /\ ~confirmed(input) THEN Ok(d, Append(shown, AbortMsg), asked)
  ELSE LET r == remove_dir_all(d) IN
       IF r.err # "none"
       THEN From_io(r.err, r.dir, shown, Append(asked, "remove_dir_all"))
       ELSE Ok(r.dir, Append(shown, PurgedMsg),
               Append(asked, "remove_dir_all"))

remove(d, name) ==
  IF ~is_valid_entry(name) THEN InvalidEntry(d)
  ELSE LET r == remove_file(d, name) IN
       IF r.err # "none" THEN From_io(r.err, r.dir, <<>>, <<"remove_file">>)
       ELSE Ok(r.dir, <<"Removed ">> \o name \o <<"\n">>, <<"remove_file">>)

\* order: the order in which the directory iterator yields the entries.
\* Each line printed is the file name alone.
list(d, order) ==
  LET r == read_dir(d) IN
  IF r.err # "none" THEN From_io(r.err, d, <<>>, <<"read_dir">>)
  ELSE Ok(d, [i \in 1..Len(order) |-> order[i]], <<"read_dir">>)

(***************************************************************************)
(* The environment and the location of the store.  A variable is unset,    *)
(* set to text, or set to bytes that are not valid Unicode; env::var       *)
(* yields the text in the second case only.  A path is its list of         *)
(* components and whether it is absolute, which is what PathBuf compares.  *)
(***************************************************************************)
Unset == [set |-> FALSE, unicode |-> FALSE, text |-> <<>>]

NotUnicode == [set |-> TRUE, unicode |-> FALSE, text |-> <<>>]

Text(t) == [set |-> TRUE, unicode |-> TRUE, text |-> t]

EnvNames == {"BRIEFCASE_DIR", "TEMP", "TMPDIR", "BRIEFCASE_DIRNAME"}

NoEnv == [k \in EnvNames |-> Unset]

\* The values a variable can have: unset, not Unicode, an absolute path of
\* its own, a relative path with a trailing separator, the empty text.
EnvValues(c) ==
  {Unset, NotUnicode, Text(<<"/", c>>), Text(<<c, "/">>), Text(<<>>)}

Envs ==
  {e \in [EnvNames -> UNION {EnvValues(c) : c \in {"d", "e", "m", "n"}}] :
     /\ e["BRIEFCASE_DIR"] \in EnvValues("d")
     /\ e["TEMP"] \in EnvValues("e")
     /\ e["TMPDIR"] \in EnvValues("m")
     /\ e["BRIEFCASE_DIRNAME"] \in EnvValues("n")}

\* env::var(k).ok()
env_var_any(e, k) == [some |-> e[k].set, val |-> e[k].text]

env_var(e, k) == [some |-> e[k].set /\ e[k].unicode, val |-> e[k].text]

RECURSIVE components(_, _, _)
components(text, i, cur) ==
  IF i > Len(text) THEN (IF cur = <<>> THEN <<>> ELSE <<cur>>)
  ELSE IF text[i] = "/"
       THEN (IF cur = <<>> THEN <<>> ELSE <<cur>>)
              \o components(text, i + 1, <<>>)
       ELSE components(text, i + 1, Append(cur, text[i]))

\* PathBuf::from
PathBuf_from(text) ==
  [abs |-> text # <<>> /\ text[1] = "/", comps |-> components(text, 1, <<>>)]

\* Path::join: an absolute argument replaces the path.
join(base, p) ==
  IF p.abs THEN p ELSE [abs |-> base.abs, comps |-> base.comps \o p.comps]

TmpText == <<"/", "t", "m", "p">>

BriefcaseText == <<"b", "r", "i", "e", "f", "c", "a", "s", "e">>

env_vars_reversed == <<"TMPDIR", "TEMP", "BRIEFCASE_DIR">>

env_vars == <<"BRIEFCASE_DIR", "TEMP", "TMPDIR">>

RECURSIVE find_map(_, _)
find_map(e, i) ==
  IF i > Len(env_vars)
  THEN [text |-> TmpText, path |-> PathBuf_from(TmpText), env_var |-> "N/A"]
  ELSE LET v == env_var(e, env_vars[i]) IN
       IF v.some
       THEN [text |-> v.val, path |-> PathBuf_from(v.val),
             env_var |-> env_vars[i]]
       ELSE find_map(e, i + 1)

get_temp_dir(e) == find_map(e, 1)

get_briefcase_dir_name(e) ==
  LET v == env_var(e, "BRIEFCASE_DIRNAME") IN
  IF v.some THEN v.val ELSE BriefcaseText

get_briefcase_dir(e) ==
  join(get_temp_dir(e).path, PathBuf_from(get_briefcase_dir_name(e)))

\* info prints the temp dir, the variable it was taken from and the
\* directory name; it makes no call to the filesystem.
info(d, e) ==
  Ok(d, <<get_temp_dir(e).text, get_temp_dir(e).env_var,
          get_briefcase_dir_name(e)>>, <<>>)

VersionMsg == "Briefcase 0.5.0\n"

version(d) == Ok(d, <<VersionMsg>>, <<>>)

\* No invocation is followed call by call.
NoProcs == <<>>

(***************************************************************************)
(* State machine: one action per invocation of the program.                *)
(*   briefcase  the directory                                              *)
(*   last       the last invocation: command, arguments, result, output    *)
(*   lastMut    the last invocation that changed the directory: the        *)
(*              command, its name and value, whether a set replaced an     *)
(*              existing entry and the value it replaced                   *)
(*   live       the names set with success and not removed or purged since *)
(*   env        the environment variables of the invocations               *)
(*   procs      the invocations in progress, when their system calls are   *)
(*              followed one by one (none in this state machine)           *)
(***************************************************************************)
Call(op, name, value, force, input, o) ==
  [op |-> op, name |-> name, value |-> value, force |-> force,
   input |-> input, res |-> o.res, ioKind |-> o.ioKind, out |-> o.out,
   calls |-> o.calls]

NoCall ==
  [op |-> "none", name |-> <<>>, value |-> <<>>, force |-> FALSE,
   input |-> <<>>, res |-> "Ok", ioKind |-> "-", out |-> <<>>,
   calls |-> <<>>]

Mut(op, name, value, overwrote, old) ==
  [op |-> op, name |-> name, value |-> value, overwrote |-> overwrote,
   old |-> old]

NoMut == Mut("none", <<>>, <<>>, FALSE, <<>>)

Init ==
  /\ briefcase = NoDir
  /\ last = NoCall
  /\ lastMut = NoMut
  /\ live = {}
  /\ env = NoEnv
  /\ procs = NoProcs

Set(name, value) ==
  LET o == set(briefcase, name, value)
      had == name \in DOMAIN briefcase.files
  IN
  /\ briefcase' = o.dir
  /\ last' = Call("set", name, value, FALSE, <<>>, o)
  /\ lastMut' = IF o.res = "Ok"
                THEN Mut("set", name, value, had,
                         IF had THEN briefcase.files[name] ELSE <<>>)
                ELSE lastMut
  /\ live' = IF o.res = "Ok" THEN live \cup {name} ELSE live
  /\ UNCHANGED <<env, procs>>

Get(name) ==
  LET o == get(briefcase, name) IN
  /\ briefcase' = o.dir
  /\ last' = Call("get", name, <<>>, FALSE, <<>>, o)
  /\ UNCHANGED <<lastMut, live, env, procs>>

Purge(force, input) ==
  LET o == purge(briefcase, force, input) IN
  /\ briefcase' = o.dir
  /\ last' = Call("purge", <<>>, <<>>, force, input, o)
  /\ lastMut' = IF o.res = "Ok" /\ o.dir # briefcase
                THEN Mut("purge", <<>>, <<>>, FALSE, <<>>)
                ELSE lastMut
  /\ live' = IF o.res = "Ok" /\ (force \/ confirmed(input)) THEN {} ELSE live
  /\ UNCHANGED <<env, procs>>

Remove(name) ==
  LET o == remove(briefcase, name) IN
  /\ briefcase' = o.dir
  /\ last' = Call("remove", name, <<>>, FALSE, <<>>, o)
  /\ lastMut' = IF o.res = "Ok"
                THEN Mut("remove", name, <<>>, FALSE, <<>>)
                ELSE lastMut
  /\ live' = IF o.res = "Ok" THEN live \ {name} ELSE live
  /\ UNCHANGED <<env, procs>>

List ==
  \E order \in Orders(read_dir(briefcase).entries) :
    LET o == list(briefcase, order) IN
    /\ briefcase' = o.dir
    /\ last' = Call("list", <<>>, <<>>, FALSE, <<>>, o)
    /\ UNCHANGED <<lastMut, live, env, procs>>

Info ==
  LET o == info(briefcase, env) IN
  /\ briefcase' = o.dir
  /\ last' = Call("info", <<>>, <<>>, FALSE, <<>>, o)
  /\ UNCHANGED <<lastMut, live, env, procs>>

Version ==
  LET o == version(briefcase) IN
  /\ briefcase' = o.dir
  /\ last' = Call("version", <<>>, <<>>, FALSE, <<>>, o)
  /\ UNCHANGED <<lastMut, live, env, procs>>

Next ==
  \/ \E name \in Names, value \in Values : Set(name, value)
  \/ \E name \in Names : Get(name)
  \/ \E input \in Answers : Purge(FALSE, input)
  \/ Purge(TRUE, <<>>)
  \/ \E name \in Names : Remove(name)
  \/ List
  \/ Info
  \/ Version

Spec == Init /\ [][Next]_vars

\* The string given to the name validator.
InitEntry ==
  /\ briefcase = NoDir
  /\ \E entry \in EntryStrings :
       last = [NoCall EXCEPT !.op = "entry", !.name = entry]
  /\ lastMut = NoMut
  /\ live = {}
  /\ env = NoEnv
  /\ procs = NoProcs

\* The name validator applied to the string.
IsValidEntry ==
  /\ last.op = "entry"
  /\ last' = [last EXCEPT !.op = "is_valid_entry",
                          !.res = IF is_valid_entry(last.name) THEN "true"
                                  ELSE "false"]
  /\ UNCHANGED <<briefcase, lastMut, live, env, procs>>

NextEntry == IsValidEntry

\* The name validator, over every string of the bounded alphabet.
SpecEntry == InitEntry /\ [][NextEntry]_vars

InitEnv ==
  /\ briefcase = NoDir
  /\ last = NoCall
  /\ lastMut = NoMut
  /\ live = {}
  /\ env \in Envs
  /\ procs = NoProcs

NextEnv ==
  \/ Info
  \/ Version

\* The location and info, over every environment.
SpecEnv == InitEnv /\ [][NextEnv]_vars

(***************************************************************************)
(* The invocations followed system call by system call.  Two processes run *)
(* one command each on the same directory; their system calls interleave.  *)
(*   set    create_dir_all; open the file (created if missing, truncated); *)
(*          write the value at offset 0 of the open file                   *)
(*   get    open the file; read it to the end                              *)
(*   purge  (forced) remove_dir_all: unlink the entries; remove the        *)
(*          directory, which fails when it is not empty                    *)
(* A process may be killed between two calls (Crash) and a call may fail   *)
(* with an I/O error of the environment (Fail).  A file that is unlinked   *)
(* while a process holds it open lives on for that process only.           *)
(***************************************************************************)
ProcIds == {1, 2}

ProcName == <<"x">>

OtherName == <<"Y", "_", "2">>

OldVal == <<"o", "l", "d">>

ValA == <<"a", "a">>

ValB == <<"b">>

\* The directories the processes start on: absent, empty, holding the name
\* the processes work on, holding another entry too.
StartDirs ==
  { NoDir,
    [exists |-> TRUE, files |-> NoFiles],
    [exists |-> TRUE, files |-> Put(NoFiles, ProcName, OldVal)],
    [exists |-> TRUE,
     files |-> Put(Put(NoFiles, ProcName, OldVal), OtherName, OldVal)] }

Proc(cmd, name, value, pre) ==
  [cmd |-> cmd, name |-> name, value |-> value, pc |-> "start",
   res |-> "-", ioKind |-> "-", out |-> <<>>, pre |-> pre,
   unlinked |-> FALSE, snap |-> <<>>, injected |-> FALSE]

\* File::create of fs::write: O_CREAT | O_TRUNC in an existing directory.
sys_open_trunc(d, n) ==
  IF ~d.exists THEN [err |-> "NotFound", dir |-> d]
  ELSE [err |-> "none", dir |-> [d EXCEPT !.files = Put(d.files, n, <<>>)]]

\* write_all of fs::write: the bytes go to offset 0 of the open file; what
\* the file holds beyond them stays.
sys_write_at(contents, value) ==
  value \o SubSeq(contents, Len(value) + 1, Len(contents))

\* remove_dir_all, first part: the entries of the directory are unlinked.
sys_unlink_all(d) ==
  IF ~d.exists THEN [err |-> "NotFound", dir |-> d]
  ELSE [err |-> "none", dir |-> [d EXCEPT !.files = NoFiles]]

sys_rmdir_skip(d) == [err |-> "none", dir |-> d]

\* remove_dir_all, second part: the directory itself is removed.
sys_rmdir(d) ==
  IF ~d.exists THEN [err |-> "NotFound", dir |-> d]
  ELSE IF d.files # NoFiles THEN [err |-> "DirectoryNotEmpty", dir |-> d]
  ELSE [err |-> "none", dir |-> NoDir]

Finish(q, res, kind, out) ==
  [q EXCEPT !.pc = "done", !.res = res, !.ioKind = kind, !.out = out]

\* The processes that hold file n open lose sight of the directory entry.
Unlinked(ps, d) ==
  [r \in ProcIds |->
     IF ps[r].pc \in {"write", "read"} /\ ~ps[r].unlinked
     THEN [ps[r] EXCEPT !.unlinked = TRUE, !.snap = d.files[ps[r].name]]
     ELSE ps[r]]

InitProcs ==
  /\ briefcase \in StartDirs
  /\ \E c \in { [cmd |-> "none", value |-> <<>>],
                [cmd |-> "get", value |-> <<>>],
                [cmd |-> "set", value |-> ValB],
                [cmd |-> "purge", value |-> <<>>] } :
       procs = [p \in ProcIds |->
                  IF p = 1 THEN Proc("set", ProcName, ValA, briefcase)
                  ELSE Proc(c.cmd, ProcName, c.value, briefcase)]
  /\ last = NoCall
  /\ lastMut = NoMut
  /\ live = {}
  /\ env = NoEnv

Rest == <<last, lastMut, live, env>>

SetMkdir(p) ==
  /\ procs[p].cmd = "set" /\ procs[p].pc = "start"
  /\ IF ~is_valid_entry(procs[p].name)
     THEN /\ procs' = [procs EXCEPT
                         ![p] = Finish(@, "InvalidEntry", "-", <<>>)]
          /\ UNCHANGED briefcase
     ELSE /\ briefcase' = create_dir_all(briefcase).dir
          /\ procs' = [procs EXCEPT ![p].pc = "open"]
  /\ UNCHANGED Rest

SetOpen(p) ==
  /\ procs[p].cmd = "set" /\ procs[p].pc = "open"
  /\ LET r == sys_open_trunc(briefcase, procs[p].name) IN
     /\ briefcase' = r.dir
     /\ procs' = [procs EXCEPT
                    ![p] = IF r.err # "none"
                           THEN Finish(@, "Io", r.err, <<>>)
                           ELSE [@ EXCEPT !.pc = "write"]]
  /\ UNCHANGED Rest

SetWrite(p) ==
  /\ procs[p].cmd = "set" /\ procs[p].pc = "write"
  /\ briefcase' =
       IF procs[p].unlinked THEN briefcase
       ELSE [briefcase EXCEPT
               !.files[procs[p].name] = sys_write_at(@, procs[p].value)]
  /\ procs' = [procs EXCEPT ![p] = Finish(@, "Ok", "-", <<>>)]
  /\ UNCHANGED Rest

GetOpen(p) ==
  /\ procs[p].cmd = "get" /\ procs[p].pc = "start"
  /\ procs' = [procs EXCEPT
                 ![p] = IF ~is_valid_entry(@.name)
                        THEN Finish(@, "InvalidEntry", "-", <<>>)
                        ELSE IF File_open(briefcase, @.name).err = "NotFound"
                        THEN Finish(@, "EntryNotFound", "-", <<>>)
                        ELSE [@ EXCEPT !.pc = "read"]]
  /\ UNCHANGED <<briefcase, Rest>>

GetRead(p) ==
  /\ procs[p].cmd = "get" /\ procs[p].pc = "read"
  /\ procs' = [procs EXCEPT
                 ![p] = Finish(@, "Ok", "-",
                               print(IF @.unlinked THEN @.snap
                                     ELSE briefcase.files[@.name]))]
  /\ UNCHANGED <<briefcase, Rest>>

PurgeUnlink(p) ==
  /\ procs[p].cmd = "purge" /\ procs[p].pc = "start"
  /\ LET r == sys_unlink_all(briefcase) IN
     /\ briefcase' = r.dir
     /\ procs' = IF r.err # "none"
                 THEN [procs EXCEPT ![p] = Finish(@, "Io", r.err, <<>>)]
                 ELSE [Unlinked(procs, briefcase) EXCEPT ![p].pc = "rmdir"]
  /\ UNCHANGED Rest

PurgeRmdir(p) ==
  /\ procs[p].cmd = "purge" /\ procs[p].pc = "rmdir"
  /\ LET r == sys_rmdir(briefcase) IN
     /\ briefcase' = r.dir
     /\ procs' = [procs EXCEPT
                    ![p] = IF r.err # "none"
                           THEN Finish(@, "Io", r.err, <<>>)
                           ELSE Finish(@, "Ok", "-", <<PurgedMsg>>)]
  /\ UNCHANGED Rest

\* The process is killed before its next call.
Crash(p) ==
  /\ procs[p].cmd # "none" /\ procs[p].pc \notin {"done", "crashed"}
  /\ procs' = [procs EXCEPT ![p].pc = "crashed"]
  /\ UNCHANGED <<briefcase, Rest>>

\* The next system call fails with an I/O error and has no effect.
Fail(p) ==
  /\ procs[p].cmd # "none" /\ procs[p].pc \notin {"done", "crashed"}
  /\ procs' = [procs EXCEPT
                 ![p] = [Finish(@, "Io", "Other", <<>>)
                           EXCEPT !.injected = TRUE]]
  /\ UNCHANGED <<briefcase, Rest>>

NextProcs ==
  \E p \in ProcIds :
    \/ SetMkdir(p)
    \/ SetOpen(p)
    \/ SetWrite(p)
    \/ GetOpen(p)
    \/ GetRead(p)
    \/ PurgeUnlink(p)
    \/ PurgeRmdir(p)
    \/ Crash(p)
    \/ Fail(p)

SpecProcs == InitProcs /\ [][NextProcs]_vars

TypeOK ==
  /\ briefcase.exists \in BOOLEAN
  /\ DOMAIN briefcase.files \subseteq Names
  /\ \A n \in DOMAIN briefcase.files : briefcase.files[n] \in Values
  /\ ~briefcase.exists => briefcase.files = NoFiles


(***************************************************************************)
(* The contract's own notions, stated independently of the code.           *)
(***************************************************************************)
\* The name rule: non-empty, a letter first, then letters, digits and
\* underscores.
NameRule(s) ==
  /\ Len(s) >= 1
  /\ s[1] \in Letters
  /\ \A i \in 2..Len(s) : s[i] \in Letters \cup Digits \cup {"_"}

\* An affirmative answer: a single y or Y, surrounded by white space only.
Affirmative(input) ==
  \E i \in 1..Len(input) :
    /\ input[i] \in {"y", "Y"}
    /\ \A j \in 1..Len(input) : j # i => input[j] \in WhiteSpace

\* A line "name = value".
FormatPair(n, v) == n \o <<" ", "=", " ">> \o v

Lines(out) == {out[i] : i \in 1..Len(out)}

\* The last invocation was a get of the name of the last mutation.
GetOfLastMut(op) ==
  /\ last.op = "get"
  /\ lastMut.op = op
  /\ lastMut.name = last.name

(***************************************************************************)
(* C1. Round trip: a get(n) that follows a successful set(n, v), with no   *)
(* mutation of the store in between, succeeds and prints exactly v: no     *)
(* character is added or removed, also when v is the empty string.         *)
(***************************************************************************)
C1_RoundTrip ==
  GetOfLastMut("set") => (last.res = "Ok" /\ last.out = lastMut.value)

C1_Witness ==
  /\ GetOfLastMut("set")
  /\ NameRule(last.name)
  /\ lastMut.value = <<>>
  /\ last.res = "Ok"
  /\ last.out = <<>>

(***************************************************************************)
(* C2. set is an upsert: a set(n, b) of a valid name n that the store      *)
(* already holds succeeds and prints nothing, leaves n holding b and the   *)
(* number of entries as it was; a get(n) after it prints b.                *)
(***************************************************************************)
C2_Overwrite ==
  ( /\ last'.op = "set"
    /\ NameRule(last'.name)
    /\ last'.name \in DOMAIN briefcase.files )
  => /\ last'.res = "Ok"
     /\ last'.out = <<>>
     /\ last'.name \in DOMAIN briefcase'.files
     /\ briefcase'.files[last'.name] = last'.value
     /\ Cardinality(DOMAIN briefcase'.files)
          = Cardinality(DOMAIN briefcase.files)

C2_ReadBack ==
  (GetOfLastMut("set") /\ lastMut.overwrote)
  => (last.res = "Ok" /\ last.out = lastMut.value)

C2_Upsert == [][C2_Overwrite /\ C2_ReadBack']_vars

C2_Witness ==
  /\ GetOfLastMut("set")
  /\ lastMut.overwrote
  /\ lastMut.old = <<"a">>
  /\ lastMut.value = <<>>
  /\ last.out = <<>>
  /\ Cardinality(DOMAIN briefcase.files) = 1

(***************************************************************************)
(* C3. set, get and remove of a name that fails the name rule fail with    *)
(* the invalid-name error without any call to the filesystem, and leave    *)
(* the store as it was, whether it exists or not.                          *)
(***************************************************************************)
C3_InvalidName ==
  [][ (last'.op \in {"set", "get", "remove"} /\ ~NameRule(last'.name))
      => /\ last'.res = "InvalidEntry"
         /\ last'.calls = <<>>
         /\ briefcase' = briefcase ]_vars

C3_Witness ==
  /\ last.op = "set"
  /\ last.name = <<"2", "x">>
  /\ last.res = "InvalidEntry"
  /\ ~briefcase.exists

(***************************************************************************)
(* C4. A get(n) that follows a successful remove(n), with no mutation of   *)
(* the store in between, fails with EntryNotFound.                         *)
(***************************************************************************)
C4_RemoveThenGet == GetOfLastMut("remove") => last.res = "EntryNotFound"

C4_Witness ==
  /\ GetOfLastMut("remove")
  /\ NameRule(last.name)
  /\ last.res = "EntryNotFound"
  /\ briefcase.exists

(***************************************************************************)
(* C5. remove(n) of a valid name n that the store does not hold (also when *)
(* the store does not exist) fails with EntryNotFound, the error of a get  *)
(* of an absent name, and not with the generic I/O error.                  *)
(***************************************************************************)
C5_RemoveAbsent ==
  [][ ( /\ last'.op = "remove"
        /\ NameRule(last'.name)
        /\ last'.name \notin DOMAIN briefcase.files )
      => last'.res = "EntryNotFound" ]_vars

(***************************************************************************)
(* C6. After successful set and remove operations, list succeeds and       *)
(* prints exactly one line per entry of the store, carrying the name and   *)
(* the value last set for it, in any order.                                *)
(***************************************************************************)
C6_ListPairs ==
  (last.op = "list" /\ lastMut.op \in {"set", "remove"})
  => /\ last.res = "Ok"
     /\ Len(last.out) = Cardinality(DOMAIN briefcase.files)
     /\ Lines(last.out)
          = {FormatPair(n, briefcase.files[n]) : n \in DOMAIN briefcase.files}

(***************************************************************************)
(* C7. list of a store that does not exist, or that holds no entry,        *)
(* succeeds and prints nothing.                                            *)
(***************************************************************************)
C7_ListMissingStore ==
  (last.op = "list" /\ briefcase.files = NoFiles)
  => (last.res = "Ok" /\ last.out = <<>>)

(***************************************************************************)
(* C8. After a successful purge and until the next set, every get of a     *)
(* valid name fails with EntryNotFound and list succeeds and prints        *)
(* nothing.                                                                *)
(***************************************************************************)
C8_AfterPurge ==
  lastMut.op = "purge"
  => /\ (last.op = "get" /\ NameRule(last.name))
          => last.res = "EntryNotFound"
     /\ last.op = "list" => (last.res = "Ok" /\ last.out = <<>>)

(***************************************************************************)
(* C9. A confirmed purge (forced, or answered affirmatively) of a store    *)
(* that does not exist fails and changes nothing; of a store that exists   *)
(* it succeeds and removes the store, also when the store has no entry.    *)
(* C9_Original names the error StoreNotFound; C9_PurgeMissingStore names   *)
(* it as the code reports it, the Io variant carrying NotFound.            *)
(***************************************************************************)
ConfirmedPurge(c) == c.op = "purge" /\ (c.force \/ Affirmative(c.input))

C11_LazyCreate ==
  [][ (last'.op = "set" /\ NameRule(last'.name))
      => /\ last'.res = "Ok"
         /\ briefcase'.exists
         /\ last'.name \in DOMAIN briefcase'.files
         /\ briefcase'.files[last'.name] = last'.value
         /\ \A m \in (DOMAIN briefcase.files) \ {last'.name} :
              /\ m \in DOMAIN briefcase'.files
              /\ briefcase'.files[m] = briefcase.files[m] ]_vars

C11_Witness ==
  /\ last.op = "set"
  /\ last.res = "Ok"
  /\ lastMut.op = "set"
  /\ ~lastMut.overwrote
  /\ briefcase.exists
  /\ DOMAIN briefcase.files = {last.name}
  /\ briefcase.files[last.name] = <<"a">>

(***************************************************************************)
(* C15. The store location is <temp-root>/<dir-name>: temp-root is the     *)
(* value of the first variable of BRIEFCASE_DIR, TEMP, TMPDIR that counts  *)
(* as defined, or /tmp when none does; dir-name is BRIEFCASE_DIRNAME when  *)
(* it counts as defined, else briefcase; info reports the variable that    *)
(* supplied temp-root, or N/A.                                             *)
(* C15_Original counts every set variable as defined and takes the path    *)
(* written temp-root, "/", dir-name.  C15_Location counts a variable as    *)
(* defined when it is set to valid Unicode text and takes the path join:   *)
(* the components of dir-name after those of temp-root, or dir-name alone  *)
(* when it is absolute.                                                    *)
(***************************************************************************)
Priority == <<"BRIEFCASE_DIR", "TEMP", "TMPDIR">>

IsSet(v) == v.set

IsText(v) == v.set /\ v.unicode

Supplier(e, Defined(_)) ==
  IF \E i \in 1..3 : Defined(e[Priority[i]])
  THEN Priority[CHOOSE i \in 1..3 :
                  /\ Defined(e[Priority[i]])
                  /\ \A j \in 1..(i - 1) : ~Defined(e[Priority[j]])]
  ELSE "N/A"

RootText(e, Defined(_)) ==
  IF Supplier(e, Defined) = "N/A" THEN TmpText
  ELSE e[Supplier(e, Defined)].text

DirNameText(e, Defined(_)) ==
  IF Defined(e["BRIEFCASE_DIRNAME"]) THEN e["BRIEFCASE_DIRNAME"].text
  ELSE BriefcaseText

InfoReports(e, Defined(_)) ==
  last.op = "info"
  => /\ last.res = "Ok"
     /\ last.out[1] = RootText(e, Defined)
     /\ last.out[2] = Supplier(e, Defined)
     /\ last.out[3] = DirNameText(e, Defined)

C15_Original ==
  /\ get_briefcase_dir(env)
       = PathBuf_from(RootText(env, IsSet) \o <<"/">>
                        \o DirNameText(env, IsSet))
  /\ InfoReports(env, IsSet)

C15_Location ==
  /\ LET root == PathBuf_from(RootText(env, IsText))
         name == PathBuf_from(DirNameText(env, IsText))
     IN  get_briefcase_dir(env)
           = IF name.abs THEN name
             ELSE [abs |-> root.abs, comps |-> root.comps \o name.comps]
  /\ InfoReports(env, IsText)

C15_Witness ==
  /\ last.op = "info"
  /\ env["BRIEFCASE_DIR"] = NotUnicode
  /\ env["TEMP"] = Text(<<"/", "e">>)
  /\ env["TMPDIR"] = Text(<<"/", "m">>)
  /\ env["BRIEFCASE_DIRNAME"] = Unset
  /\ last.out[2] = "TEMP"
  /\ get_briefcase_dir(env) = [abs |-> TRUE, comps |-> <<<<"e">>, BriefcaseText>>]

(***************************************************************************)
(* C16. The name validator accepts a string iff it is non-empty, its first *)
(* character is a letter and every later character is a letter, a digit or *)
(* an underscore.                                                          *)
(***************************************************************************)
C16_Validator ==
  last.op = "is_valid_entry" => (last.res = "true" <=> NameRule(last.name))

C16_Witness ==
  /\ last.op = "is_valid_entry"
  /\ last.name = <<"A", "1", "_", "b">>
  /\ last.res = "true"

(***************************************************************************)
(* C17. A successful set(n, v) or remove(n) leaves every entry with        *)
(* another name as it was (present or absent, same value); a successful    *)
(* remove leaves the store existing, so a confirmed purge that follows the *)
(* removal of an entry, of the last one too, succeeds.                     *)
(***************************************************************************)
C17_Frame ==
  [][ /\ (last'.op \in {"set", "remove"} /\ last'.res = "Ok")
           => \A m \in Names \ {last'.name} :
                /\ m \in DOMAIN briefcase.files
                     <=> m \in DOMAIN briefcase'.files
                /\ m \in DOMAIN briefcase.files
                     => briefcase'.files[m] = briefcase.files[m]
      /\ (last'.op = "remove" /\ last'.res = "Ok") => briefcase'.exists
      /\ (ConfirmedPurge(last') /\ lastMut.op = "remove")
           => last'.res = "Ok" ]_vars

C17_Witness ==
  /\ last.op = "remove"
  /\ last.res = "Ok"
  /\ lastMut.op = "remove"
  /\ briefcase.exists
  /\ briefcase.files = NoFiles

(***************************************************************************)
(* C19. get, list, info and version, whether they succeed or fail, leave   *)
(* the store as it was: they do not create it and do not add, change or    *)
(* remove an entry.                                                        *)
(***************************************************************************)
C19_ReadOnly ==
  [][ last'.op \in {"get", "list", "info", "version"}
      => briefcase' = briefcase ]_vars

C19_Witness ==
  /\ last.op = "get"
  /\ NameRule(last.name)
  /\ last.res = "EntryNotFound"
  /\ ~briefcase.exists

(***************************************************************************)
(* C20. Starting from an absent store, after any calls with valid and      *)
(* invalid names, every entry of the store has a name that satisfies the   *)
(* name rule, and the entries of the store are exactly the names set with  *)
(* success and not removed or purged since.                                *)
(***************************************************************************)
C20_Layout ==
  /\ \A n \in DOMAIN briefcase.files : NameRule(n)
  /\ DOMAIN briefcase.files = live

C20_Witness ==
  /\ last.op = "set"
  /\ ~NameRule(last.name)
  /\ lastMut.op = "remove"
  /\ live = {<<"Y", "_", "2">>}
  /\ DOMAIN briefcase.files = live

(***************************************************************************)
(* The two processes, and what a call that ran to its end returned.        *)
(***************************************************************************)
Ran(p, cmd) ==
  /\ procs # NoProcs
  /\ procs[p].cmd = cmd
  /\ procs[p].pc = "done"
  /\ ~procs[p].injected

Alone(p) == \A q \in ProcIds \ {p} : procs[q].cmd = "none"

Only(n, v) == [exists |-> TRUE, files |-> Put(NoFiles, n, v)]

(***************************************************************************)
(* C12. set is atomic towards readers: a get(n) whose calls interleave     *)
(* with those of a set(n, new), or that runs after the set was killed      *)
(* midway, prints the whole old value or the whole new value; when n held  *)
(* a value before the set, the get does not fail.                          *)
(***************************************************************************)
C12_AtomicSet ==
  (Ran(2, "get") /\ procs[1].cmd = "set" /\ procs[1].name = procs[2].name
     /\ ~procs[1].injected)
  => LET n == procs[2].name
         pre == procs[2].pre
     IN  IF n \in DOMAIN pre.files
         THEN /\ procs[2].res = "Ok"
              /\ procs[2].out \in {pre.files[n], procs[1].value}
         ELSE procs[2].res = "Ok" => procs[2].out = procs[1].value

(***************************************************************************)
(* C13. Last writer wins: when set(n, a) and set(n, b) run concurrently    *)
(* and both return success, n holds exactly a or exactly b.                *)
(***************************************************************************)
C13_LastWriterWins ==
  ( /\ Ran(1, "set") /\ Ran(2, "set")
    /\ procs[1].name = procs[2].name
    /\ procs[1].res = "Ok" /\ procs[2].res = "Ok" )
  => /\ procs[1].name \in DOMAIN briefcase.files
     /\ briefcase.files[procs[1].name] \in {procs[1].value, procs[2].value}

(***************************************************************************)
(* C14. Every operation is all-or-nothing: when a call that runs alone     *)
(* returns an error, an I/O failure of one of its filesystem calls         *)
(* included, the store is as it was before the call.                       *)
(***************************************************************************)
C14_AllOrNothing ==
  procs # NoProcs
  => \A p \in ProcIds :
       (Alone(p) /\ procs[p].pc = "done" /\ procs[p].res # "Ok")
       => briefcase = procs[p].pre

(***************************************************************************)
(* C18. set(n, v) of a valid name and a forced purge that run concurrently *)
(* on an existing store.  C18_Original: both succeed and the store ends as *)
(* after one of the two sequential orders, absent or holding exactly       *)
(* n = v.  C18_SetPurge: at most one of the two fails, set with the I/O    *)
(* error NotFound and the store ends absent, or purge with the I/O error   *)
(* DirectoryNotEmpty and the store ends holding exactly n = v; when both   *)
(* succeed the store ends absent or holding exactly n = v.                 *)
(***************************************************************************)
SetAndPurge ==
  /\ Ran(1, "set") /\ Ran(2, "purge")
  /\ NameRule(procs[1].name)
  /\ procs[1].pre.exists

C18_Original ==
  SetAndPurge
  => /\ procs[1].res = "Ok"
     /\ procs[2].res = "Ok"
     /\ briefcase \in {NoDir, Only(procs[1].name, procs[1].value)}

C18_SetPurge ==
  SetAndPurge
  => LET s == procs[1]
         g == procs[2]
     IN  /\ s.res = "Ok" \/ (s.res = "Io" /\ s.ioKind = "NotFound")
         /\ g.res = "Ok" \/ (g.res = "Io" /\ g.ioKind = "DirectoryNotEmpty")
         /\ s.res = "Ok" \/ g.res = "Ok"
         /\ s.res # "Ok" => briefcase = NoDir
         /\ g.res # "Ok" => briefcase = Only(s.name, s.value)
         /\ briefcase \in {NoDir, Only(s.name, s.value)}

C18_Witness ==
  /\ SetAndPurge
  /\ procs[1].res = "Io"
  /\ procs[1].ioKind = "NotFound"
  /\ procs[2].res = "Ok"
  /\ OtherName \in DOMAIN procs[1].pre.files
  /\ briefcase = NoDir

=============================================================================
